---- MODULE Spec2Model ----
(***************************************************************************)
(* A model of the multi-level network container (src/src/Network.cpp,      *)
(* src/src/network.h) and of the SBM inference engine (src/src/SBM.cpp).   *)
(*                                                                         *)
(* Node objects live in a heap `node` (handle -> fields).  The container   *)
(* `nodes` holds, per level, the handles the network currently owns.      *)
(* The Node class itself (set_parent, connect_nodes, the connection        *)
(* walks) is not part of the sources and is modelled from section 4.2 of   *)
(* the specification.                                                      *)
(***************************************************************************)
EXTENDS Integers, Sequences, FiniteSets, TLC

\* ------------------------------------------------------------------ bounds
MaxNodes == 3      \* level-0 nodes the caller adds
MaxEdges == 2      \* edges the caller adds
MaxTypes == 2      \* node types the caller uses
MaxLevel == 2      \* highest level index any operation may build
MaxCalls == 2      \* sweeps the caller asks for
MaxCount == 6      \* cap on the entries of node_type_counts at call time

None == 0          \* the absent parent (a null pointer)
Dangling == -1     \* a parent pointer whose block was destroyed

VARIABLES
  impl,              \* which container class was constructed: "Network" or "SBM_Network"
  num_types,         \* size of the type table
  node,              \* heap: handle -> [id, type, level, parent, degree]
  nodes,             \* nodes[l+1]: handles held by the container at level l
  edges,             \* bag of level-0 edges: <<u, v>> (u <= v) -> multiplicity
  node_type_counts,  \* Network::node_type_counts: type -> level -> count
  block_counter,     \* SBM_Network::block_counter
  pc,                \* the handler that is running ("idle" between calls)
  sw,                \* frame of the running mcmc_sweep
  mg,                \* frame of the running agglomerative_merge
  co,                \* frame of the running collapse_groups
  last,              \* outcome of the last completed operation
  calls              \* calls the caller has made of the operations it may repeat

vars == <<impl, num_types, node, nodes, edges, node_type_counts, block_counter,
          pc, sw, mg, co, last, calls>>

\* ------------------------------------------------------------ small helpers
\* F(e), with e evaluated once before F is applied.
Eval(F(_), e) == CHOOSE r \in {F(x) : x \in {e}} : TRUE

Min(S) == CHOOSE x \in S : \A y \in S : x <= y
Max(S) == CHOOSE x \in S : \A y \in S : x >= y

RECURSIVE SumOver(_, _)
SumOver(S, f) ==
  IF S = {} THEN 0
  ELSE LET x == CHOOSE y \in S : TRUE IN f[x] + SumOver(S \ {x}, f)

\* Lexicographic order on ids (std::map<string, NodePtr> iterates in key order).
RECURSIVE IdLess(_, _)
IdLess(a, b) ==
  IF a = <<>> THEN b # <<>>
  ELSE IF b = <<>> THEN FALSE
  ELSE IF Head(a) # Head(b) THEN Head(a) < Head(b)
  ELSE IdLess(Tail(a), Tail(b))

\* The handles of S as a sequence in id order, ties broken by handle.
RECURSIVE InIdOrder(_, _)
InIdOrder(n, S) ==
  IF S = {} THEN <<>>
  ELSE LET h == CHOOSE x \in S : \A y \in S \ {x} :
                   \/ IdLess(n[x].id, n[y].id)
                   \/ (n[x].id = n[y].id /\ x < y)
       IN <<h>> \o InIdOrder(n, S \ {h})

\* ------------------------------------------------------------ the Node class
Node(id, level, type) ==
  [id |-> id, type |-> type, level |-> level, parent |-> None, degree |-> 0]

\* The smallest handle neither in use nor still referred to as a parent.
NewHandle(n) ==
  LET used == DOMAIN n \cup {n[h].parent : h \in DOMAIN n}
  IN Min((1..(Cardinality(used) + 1)) \ used)

children(n, b) == {c \in DOMAIN n : n[c].parent = b}

\* Every ancestor of v that is still in the heap.
RECURSIVE Ancestors(_, _)
Ancestors(n, v) ==
  LET p == n[v].parent
  IN IF p = None \/ p \notin DOMAIN n THEN {} ELSE {p} \cup Ancestors(n, p)

Chain(n, b) == IF b \in DOMAIN n THEN {b} \cup Ancestors(n, b) ELSE {}

\* Node::set_parent: leave the old parent's children, join the new parent's,
\* and move self.degree from the old chain of ancestors to the new one.
set_parent(n, v, b) ==
  CHOOSE moved \in
    {[h \in DOMAIN n |->
        IF h = v THEN [n[h] EXCEPT !.parent = b]
        ELSE [n[h] EXCEPT !.degree = @ - (IF h \in old THEN d ELSE 0)
                                       + (IF h \in new THEN d ELSE 0)]] @@ <<>> :
       d \in {n[v].degree}, old \in {Ancestors(n, v)}, new \in {Chain(n, b)}} : TRUE

\* Ancestor of v at level l (v itself when it lives at l); None when the
\* chain of parents ends below l.
RECURSIVE get_parent_at_level(_, _, _)
get_parent_at_level(n, v, l) ==
  IF v = None \/ v \notin DOMAIN n THEN None
  ELSE IF n[v].level = l THEN v
  ELSE IF n[v].level > l THEN None
  ELSE get_parent_at_level(n, n[v].parent, l)

\* ------------------------------------------------------------ the level-0 graph
Pair(u, v) == IF u <= v THEN <<u, v>> ELSE <<v, u>>
EdgeCount(e, u, v) == IF Pair(u, v) \in DOMAIN e THEN e[Pair(u, v)] ELSE 0
NumEdges(e) == SumOver(DOMAIN e, e)

\* How often w occurs in the neighbor sequence of the level-0 node u.
NeighborCount(e, u, w) == IF u = w THEN 2 * EdgeCount(e, u, u) ELSE EdgeCount(e, u, w)

\* Level-0 nodes below x (x itself when x is a level-0 node).
Leaves(n, x) == {u \in DOMAIN n : n[u].level = 0 /\ get_parent_at_level(n, u, n[x].level) = x}

\* ------------------------------------------------------------ container state
Net == [node |-> node, nodes |-> nodes, ntc |-> node_type_counts, bc |-> block_counter]

SetNet(N) ==
  /\ node' = N.node
  /\ nodes' = N.nodes
  /\ node_type_counts' = N.ntc
  /\ block_counter' = N.bc

num_levels(N) == Len(N.nodes)
Level(N, l) == N.nodes[l + 1]
AllHeld(N) == UNION {N.nodes[i] : i \in DOMAIN N.nodes}

\* Objects no longer reachable from the container are released: a handle
\* stays while the container holds it, while a held node points to it as
\* its parent, or while a live block still lists it among its children.
RECURSIVE LiveFrom(_, _)
LiveFrom(n, S) ==
  LET grow(more) == IF more \subseteq S THEN S ELSE LiveFrom(n, S \cup more)
  IN Eval(grow, ({n[h].parent : h \in S} \cap DOMAIN n)
                   \cup {c \in DOMAIN n : n[c].parent \in S})

Release(N) ==
  LET keep(live) == [N EXCEPT !.node = [h \in live |-> N.node[h]]]
  IN Eval(keep, LiveFrom(N.node, AllHeld(N) \cap DOMAIN N.node))


\* Handles are addresses: two heaps that differ only in the handles of
\* their blocks are the same network.  Blocks are renumbered level by
\* level, ordered by (held by the container, id, first child).
BlockKeyLess(N, rho, a, b) ==
  LET n  == N.node
      ha == IF a \in AllHeld(N) THEN 0 ELSE 1
      hb == IF b \in AllHeld(N) THEN 0 ELSE 1
      ca == {rho[c] : c \in children(n, a)} \cup {0}
      cb == {rho[c] : c \in children(n, b)} \cup {0}
  IN \/ ha < hb
     \/ ha = hb /\ IdLess(n[a].id, n[b].id)
     \/ ha = hb /\ n[a].id = n[b].id /\ Max(ca) < Max(cb)
     \/ ha = hb /\ n[a].id = n[b].id /\ Max(ca) = Max(cb) /\ a < b

RECURSIVE Renumbering(_, _, _, _)
Renumbering(N, level, rho, next) ==
  LET n == N.node
      B == {h \in DOMAIN n : n[h].level = level}
      pos(b) == Cardinality({a \in B : BlockKeyLess(N, rho, a, b)})
  IN IF \A h \in DOMAIN n : n[h].level < level THEN rho
     ELSE CHOOSE r \in {Renumbering(N, level + 1, rho2, next + Cardinality(B)) :
                          rho2 \in {rho @@ [b \in B |-> next + pos(b)]}} : TRUE

\* The network N with every handle h replaced by rho[h].
Renamed(N, rho) ==
  LET n   == N.node
      inv == [k \in {rho[h] : h \in DOMAIN n} |-> CHOOSE h \in DOMAIN n : rho[h] = k]
  IN [N EXCEPT
        !.node  = [k \in DOMAIN inv |->
                     [n[inv[k]] EXCEPT !.parent = IF @ \in DOMAIN n THEN rho[@] ELSE @]],
        !.nodes = [i \in DOMAIN N.nodes |-> {rho[h] : h \in N.nodes[i]}]]

Renumbered(N) ==
  LET zero == {h \in DOMAIN N.node : N.node[h].level = 0}
  IN CHOOSE r \in {Renamed(N, rho) :
                     rho \in {Renumbering(N, 1, [h \in zero |-> h], Max(zero \cup {0}) + 1)}} :
        TRUE

Canonical(N0) ==
  CHOOSE r \in {Renumbered(N) : N \in {Release(N0)}} : TRUE

NoError == "none"
Outcome(op, err) == [op |-> op, err |-> err]
Running == Outcome("running", NoError)

\* =========================================================================
\* Network (src/src/Network.cpp)
\* =========================================================================
NewBlock == <<>>     \* the id "new block"

\* Network::get_level creates the level when it does not exist yet.
RECURSIVE get_level(_, _)
get_level(N, level) ==
  IF level < num_levels(N) THEN N
  ELSE get_level([N EXCEPT !.nodes = Append(@, {})], level)

build_block_id(type, level, index) == <<type, level, index>>

\* The engine runs on levels below MaxLevel, so the counts of level
\* MaxLevel are never read; only the counts of the levels below are stored.
CountedLevels == 0..(MaxLevel - 1)
LevelCounts == [l \in CountedLevels |-> 0]

\* node_type_counts[type][level] += d (operator[] inserts a missing key).
bump_count(ntc, type, level, d) ==
  LET row == IF type \in DOMAIN ntc THEN ntc[type] ELSE LevelCounts
  IN (type :> (IF level \in CountedLevels THEN [row EXCEPT ![level] = @ + d] ELSE row))
     @@ ntc

\* Network::add_node: the level map is keyed by id, so an entry with the
\* same id is overwritten.
add_node(N, id, type, level) ==
  LET emplace(N1) ==
        LET held    == Level(N1, level)
            node_id == IF id = NewBlock
                       THEN build_block_id(type, level, Cardinality(held)) ELSE id
            h       == NewHandle(N1.node)
            same    == {x \in held : N1.node[x].id = node_id}
        IN [N1 EXCEPT !.node  = (h :> Node(node_id, level, type)) @@ @,
                      !.nodes[level + 1] = (@ \ same) \cup {h},
                      !.ntc   = bump_count(@, type, level, 1)]
  IN Eval(emplace, get_level(N, level))

create_block_node(N, type, level) == add_node(N, NewBlock, type, level)

\* Node::connect_nodes: each endpoint gains the other as a neighbor; the
\* degree of both endpoints and of all their ancestors goes up by one.
connect_nodes(n, u, v) ==
  LET cu == Chain(n, u)
      cv == Chain(n, v)
  IN [h \in DOMAIN n |->
        [n[h] EXCEPT !.degree = @ + (IF h \in cu THEN 1 ELSE 0)
                                  + (IF h \in cv THEN 1 ELSE 0)]]

add_edge_bag(e, u, v) == (Pair(u, v) :> (EdgeCount(e, u, v) + 1)) @@ e

\* The blocks of one type held at a level, in map order.
get_nodes_of_type_at_level(N, type, level) ==
  {b \in Level(N, level) : N.node[b].type = type}

RECURSIVE create_blocks(_, _, _)
create_blocks(N, types, level) ==
  IF types = <<>> THEN N
  ELSE LET rest(N1) == create_blocks(N1, Tail(types), level)
       IN Eval(rest, create_block_node(N, Head(types), level))

\* The keys of node_type_counts in order, each repeated k times.
RECURSIVE TypeSlots(_, _)
TypeSlots(keys, k) ==
  IF keys = {} THEN <<>>
  ELSE LET t == Min(keys) IN [i \in 1..k |-> t] \o TypeSlots(keys \ {t}, k)

\* One fresh block per node, in map order.
RECURSIVE own_blocks(_, _, _)
own_blocks(N, todo, level) ==
  IF todo = <<>> THEN N
  ELSE LET v  == Head(todo)
           b  == NewHandle(N.node)
           adopt(N1) == [N1 EXCEPT !.node = set_parent(@, v, b)]
           rest(N2)  == own_blocks(N2, Tail(todo), level)
       IN Eval(rest, Eval(adopt, create_block_node(N, N.node[v].type, level + 1)))

\* Each node joins the block the sampler drew among those of its type.
RECURSIVE sampled_blocks(_, _, _, _)
sampled_blocks(N, todo, level, pick) ==
  IF todo = <<>> THEN N
  ELSE LET v  == Head(todo)
           bs == InIdOrder(N.node, get_nodes_of_type_at_level(N, N.node[v].type, level + 1))
           rest(N1) == sampled_blocks(N1, Tail(todo), level, pick)
       IN Eval(rest, [N EXCEPT !.node = set_parent(@, v, bs[pick[v]])])

\* Network::initialize_blocks(num_blocks, level); pick[v] is the sampler's
\* draw for node v.
Network_initialize_blocks(N, num_blocks, level, pick) ==
  LET block_level == level + 1
      clear(N0) == [N0 EXCEPT !.nodes[block_level + 1] = {}]
      assign(N1) ==
        LET fill(node_level) ==
              IF node_level = <<>>
              THEN [N |-> N1, err |-> "EmptyLevel"]
              ELSE IF num_blocks = -1
              THEN [N |-> own_blocks(N1, node_level, level), err |-> NoError]
              ELSE LET sample(N2) == sampled_blocks(N2, node_level, level, pick)
                   IN [N |-> Eval(sample,
                                  create_blocks(N1, TypeSlots(DOMAIN N1.ntc, num_blocks),
                                                block_level)),
                       err |-> NoError]
        IN Eval(fill, InIdOrder(N1.node, Level(N1, level)))
  IN Eval(assign, Eval(clear, get_level(N, block_level)))

give_every_node_at_level_own_block(N, level) ==
  Network_initialize_blocks(N, -1, level, <<>>)

\* The scan that looks at level `level` only.
clean_one_level(N, level) ==
  IF level >= num_levels(N) THEN N
  ELSE LET empty == {b \in Level(N, level) : children(N.node, b) = {}}
       IN [N EXCEPT !.node = [h \in DOMAIN N.node \ empty |-> N.node[h]],
                    !.nodes[level + 1] = @ \ empty]

\* Network::clean_empty_blocks, one level after the other from level 1 up.
RECURSIVE clean_levels(_, _)
clean_levels(N, level) ==
  IF level >= num_levels(N) THEN N
  ELSE LET empty == {b \in Level(N, level) : children(N.node, b) = {}}
           dec[S \in SUBSET empty] ==
             IF S = {} THEN N.ntc
             ELSE LET b == CHOOSE x \in S : TRUE
                  IN bump_count(dec[S \ {b}], N.node[b].type, level, -1)
           rest(N1) == clean_levels(N1, level + 1)
       IN Eval(rest, [N EXCEPT !.node  = [h \in DOMAIN N.node \ empty |-> N.node[h]],
                               !.nodes[level + 1] = @ \ empty,
                               !.ntc   = dec[empty]])

clean_empty_blocks(N) == clean_levels(N, 1)

CountsOk(N) == \A t \in DOMAIN N.ntc : \A l \in CountedLevels : N.ntc[t][l] <= MaxCount

\* =========================================================================
\* SBM (src/src/SBM.cpp)
\* =========================================================================
Idle == pc = "idle"
NoFrame == [op |-> "none"]
Crash == [kind |-> "crash", s |-> None]
Failure(err) == [kind |-> "error", s |-> None, err |-> err]

LevelZero(n) == {u \in DOMAIN n : n[u].level = 0}

\* Number of entries of x's connections to level l that are the block t:
\* every neighbor of a level-0 node below x, taken up to its ancestor at l.
ConnectionCount(n, e, x, l, t) ==
  LET below == Leaves(n, x)
      cnt == [w \in LevelZero(n) |->
                IF get_parent_at_level(n, w, l) = t
                THEN SumOver(below, [u \in below |-> NeighborCount(e, u, w)]) ELSE 0]
  IN SumOver(LevelZero(n), cnt)

\* Node::get_connections_to_level, as the set of blocks that occur in it
\* (None stands for a neighbor whose chain of parents ends below l).
get_connections_to_level(n, e, x, l) ==
  {get_parent_at_level(n, w, l) :
     w \in {w \in LevelZero(n) : \E u \in Leaves(n, x) : NeighborCount(e, u, w) > 0}}

\* SBM::propose_move: every block the sampler's draws can return.  The
\* uniform branch is taken with probability eps*|T| / (e_w + eps*|T|).
propose_move(N, e, v) ==
  LET n == N.node
      group_level == n[v].level + 1
      draws(potential_groups, w) ==
        IF n[w].parent \notin DOMAIN n THEN {Crash}
        ELSE LET from(neighbor) ==
                   {[kind |-> "ok", s |-> s] : s \in (potential_groups \cup neighbor) \ {None}}
                   \cup (IF None \in neighbor THEN {Failure("InvalidLevel")} ELSE {})
             IN Eval(from, IF n[n[w].parent].degree > 0 \/ potential_groups = {}
                           THEN get_connections_to_level(n, e, w, group_level) ELSE {})
  IN IF group_level >= num_levels(N) \/ Level(N, group_level) = {}
     THEN {Failure("EmptyLevel")}
     ELSE CHOOSE drawn \in
            {IF own = {} THEN {Failure("EmptySample")}
             ELSE UNION {draws(potential_groups, w) : w \in own} :
               own \in {get_connections_to_level(n, e, v, n[v].level)},
               potential_groups \in {get_nodes_of_type_at_level(N, n[v].type, group_level)}} :
            TRUE

\* SBM::make_proposal_decision: the groups over which the two sums of the
\* probability ratio run, the keys of node_edges when the last loop
\* begins.  The two entropy loops before it read node_edges[t] for every
\* group t connected to the old and to the new group, and operator[]
\* inserts the keys that node_edges lacks.
ratio_terms(N, e, v, new_group) ==
  LET group_level == N.node[v].level + 1
      old_group   == N.node[v].parent
      node_edges      == get_connections_to_level(N.node, e, v, group_level)
      new_group_edges == get_connections_to_level(N.node, e, new_group, group_level)
      old_group_edges == get_connections_to_level(N.node, e, old_group, group_level)
  IN node_edges \cup old_group_edges \cup new_group_edges

\* The part of SBM::mcmc_sweep that follows an accepted or rejected
\* proposal when the number of groups may vary.
after_proposal(N, v, variable) ==
  IF variable
  THEN LET fresh(N1) == create_block_node(N1, N.node[v].type, N.node[v].level + 1)
       IN Eval(fresh, clean_empty_blocks(N))
  ELSE N

\* The iteration that moves the node whether or not the move was accepted.
sweep_node_unasked(N, v, r, accept, variable) ==
  IF r.s = N.node[v].parent \/ N.node[N.node[v].parent].id = N.node[r.s].id THEN N
  ELSE LET after(N1) == after_proposal(N1, v, variable)
       IN Eval(after, [N EXCEPT !.node = set_parent(@, v, r.s)])

\* One iteration of the loop of SBM::mcmc_sweep, for node v and proposal r.
sweep_node(N, v, r, accept, variable) ==
  IF r.s = N.node[v].parent \/ N.node[N.node[v].parent].id = N.node[r.s].id THEN N
  ELSE LET after(N1) == after_proposal(N1, v, variable)
       IN Eval(after, IF accept THEN [N EXCEPT !.node = set_parent(@, v, r.s)] ELSE N)

\* What the caller sees of a call of collapse_groups: its arguments, and
\* the exception of the merge step that its catch clause took (NoError when
\* the loop ended by its condition or the call threw).
CollapseOutcome(err, caught) ==
  [op |-> "collapse_groups", err |-> err, steps |-> co.steps, desired |-> co.desired,
   GREEDY |-> co.GREEDY, caught |-> caught]

\* The frame of a running sweep: the nodes still to visit, and what the
\* sweep did so far: the number of nodes visited, the nodes pushed to
\* results.nodes_moved, and whether every visit left the blocks of every
\* level and the parents of all nodes as they were, but for the parent of a
\* visited node that was pushed to nodes_moved after a proposal other than
\* its parent.
SweepFrame(level, variable, todo, ret) ==
  [op |-> "mcmc_sweep", level |-> level, variable |-> variable, todo |-> todo,
   ret |-> ret, size |-> Cardinality(todo), visits |-> 0, moved |-> {}, kept |-> TRUE]

\* The move of v to the proposed group r.s is pushed to results.nodes_moved.
reports_move(N, v, r, accept) ==
  N.node[N.node[v].parent].id # N.node[r.s].id /\ accept

\* The visit of v took the network from N to N1 changing no level and no
\* parent other than that of v, and that only with a reported move to
\* another block.
visit_kept(N, N1, v, r, reported) ==
  /\ N1.nodes = N.nodes
  /\ DOMAIN N1.node = DOMAIN N.node
  /\ \A h \in DOMAIN N.node :
        N1.node[h].parent # N.node[h].parent => (h = v /\ reported)
  /\ reported => r.s # N.node[v].parent

\* The frame after the visit of v.
visited(f, N, N1, v, r, accept) ==
  [f EXCEPT !.todo = @ \ {v},
            !.visits = @ + 1,
            !.moved = IF reports_move(N, v, r, accept) THEN @ \cup {v} ELSE @,
            !.kept = @ /\ visit_kept(N, N1, v, r, reports_move(N, v, r, accept))]

\* What the caller sees of a sweep that returned or threw.
SweepOutcome(err, f) ==
  [op |-> "mcmc_sweep", err |-> err, variable |-> f.variable, size |-> f.size,
   visits |-> f.visits, moved |-> f.moved, kept |-> f.kept]

\* SBM::mcmc_sweep(level, variable_num_groups) is entered.
MCMCSweepBegin ==
  /\ Idle /\ calls < MaxCalls /\ impl = "Network"
  /\ Len(nodes) >= 2
  /\ Level(Net, 0) # {}
  /\ \E variable \in BOOLEAN :
        /\ variable =>
             \A t \in DOMAIN node_type_counts :
                node_type_counts[t][1] + Cardinality(Level(Net, 0)) <= MaxCount
        /\ sw' = SweepFrame(0, variable, Level(Net, 0), "idle")
  /\ pc' = "sweep"
  /\ last' = Running
  /\ calls' = calls + 1
  /\ UNCHANGED <<impl, num_types, node, nodes, edges, node_type_counts, block_counter,
                 mg, co>>

\* Where control goes when the running sweep returns or throws: back into
\* the loop of collapse_groups, or to the caller (an exception of a sweep
\* is not caught by collapse_groups).
SweepReturns(err, f) ==
  IF sw.ret = "collapse" /\ err = NoError
  THEN /\ pc' = "collapse"
       /\ co' = [co EXCEPT !.sweeps_left = @ - 1]
       /\ last' = last
  ELSE /\ pc' = "idle"
       /\ co' = NoFrame
       /\ last' = IF sw.ret = "collapse" THEN CollapseOutcome(err, NoError)
                  ELSE SweepOutcome(err, f)

\* The sweep visits the next node of the shuffled order; after the last
\* node it returns.
MCMCSweepStep ==
  /\ pc = "sweep"
  /\ \E v \in sw.todo : \E r \in propose_move(Net, edges, v), accept \in BOOLEAN :
        \/ /\ r.kind = "ok"
           /\ node[v].parent \in DOMAIN node
           /\ \E N1 \in {sweep_node(Net, v, r, accept, sw.variable)} :
              \E N \in {Canonical(N1)}, f \in {visited(sw, Net, N1, v, r, accept)} :
                 /\ SetNet(N)
                 /\ IF sw.todo = {v}
                    THEN SweepReturns(NoError, f) /\ sw' = NoFrame
                    ELSE /\ sw' = f
                         /\ UNCHANGED <<pc, co, last>>
        \/ /\ r.kind = "error"
           /\ accept
           /\ SweepReturns(r.err, sw)
           /\ sw' = NoFrame
           /\ UNCHANGED <<node, nodes, node_type_counts, block_counter>>
        \/ /\ r.kind = "crash" \/ (r.kind = "ok" /\ node[v].parent \notin DOMAIN node)
           /\ accept
           /\ pc' = "crashed"
           /\ UNCHANGED <<node, nodes, node_type_counts, block_counter, sw, co, last>>
  /\ UNCHANGED <<impl, num_types, edges, mg, calls>>

\* ------------------------------------------------------------ merging
N_CHECKS_PER_GROUP == 1
\* The values of SIGMA the caller configures, as fractions.
Sigmas == {[num |-> 11, den |-> 10], [num |-> 3, den |-> 1]}

\* SBM::merge_groups(group_a, group_b): the children of group_b move
\* under group_a.
RECURSIVE move_children(_, _, _)
move_children(n, todo, group_a) ==
  IF todo = {} THEN n
  ELSE LET member_node == CHOOSE c \in todo : TRUE
           rest(n1) == move_children(n1, todo \ {member_node}, group_a)
       IN Eval(rest, set_parent(n, member_node, group_a))

\* merge_groups that re-parents the children and leaves the degrees of
\* the two groups as they were.
merge_groups_unaccounted(N, group_a, group_b) ==
  [N EXCEPT !.node = [h \in DOMAIN @ |->
                        IF @[h].parent = group_b THEN [@[h] EXCEPT !.parent = group_a]
                        ELSE @[h]]]

merge_groups(N, group_a, group_b) ==
  [N EXCEPT !.node = move_children(@, children(@, group_b), group_a)]

\* The check that asks for three groups of every type.
enough_groups_three(N, group_level) ==
  \A i \in 0..(Cardinality(DOMAIN N.ntc) - 1) :
     i \in DOMAIN N.ntc /\ N.ntc[i][group_level] > 2

\* The check of agglomerative_merge that every type has two groups or more,
\* read from node_type_counts.
enough_groups(N, group_level) ==
  \A i \in 0..(Cardinality(DOMAIN N.ntc) - 1) :
     i \in DOMAIN N.ntc /\ N.ntc[i][group_level] >= 2

\* node_type_counts after the check: the loop reads the counts with
\* operator[], which inserts the type it stops at when the map lacks it.
checked_counts(N, group_level) ==
  LET short == {i \in 0..(Cardinality(DOMAIN N.ntc) - 1) :
                  i \notin DOMAIN N.ntc \/ N.ntc[i][group_level] < 2}
  IN IF short = {} THEN N.ntc ELSE bump_count(N.ntc, Min(short), group_level, 0)

\* The prologue that builds the meta level before it looks at the number
\* of merges asked for.
merge_setup_zero_late(N, group_level, num_merges_to_make) ==
  LET check(r) ==
        IF r.err # NoError THEN r
        ELSE IF num_merges_to_make = 0 THEN [N |-> r.N, err |-> "ZeroMerges"]
        ELSE IF ~enough_groups(r.N, group_level)
        THEN [N |-> [r.N EXCEPT !.ntc = checked_counts(r.N, group_level)],
              err |-> "InsufficientBlocks"]
        ELSE r
  IN Eval(check, give_every_node_at_level_own_block(N, group_level))

\* agglomerative_merge up to its candidate loop.
merge_setup(N, group_level, num_merges_to_make) ==
  IF num_merges_to_make = 0 THEN [N |-> N, err |-> "ZeroMerges"]
  ELSE LET check(r) ==
             IF r.err # NoError THEN r
             ELSE IF ~enough_groups(r.N, group_level)
             THEN [N |-> [r.N EXCEPT !.ntc = checked_counts(r.N, group_level)],
                   err |-> "InsufficientBlocks"]
             ELSE r
       IN Eval(check, give_every_node_at_level_own_block(N, group_level))

\* The pairs when a group may be paired with itself.
pairs_of_with_self(n, curr_group, metagroups) ==
  {<<curr_group, merge_group>> :
     merge_group \in UNION {children(n, m) : m \in metagroups}}

\* The (from, to) pairs a group contributes for the metagroups it searches.
pairs_of(n, curr_group, metagroups) ==
  {<<curr_group, merge_group>> :
     merge_group \in {c \in UNION {children(n, m) : m \in metagroups} :
                        n[c].id # n[curr_group].id}}

\* With GREEDY every metagroup of the group's type is searched.
greedy_candidates(N, group_level) ==
  UNION {pairs_of(N.node, g,
                  get_nodes_of_type_at_level(N, N.node[g].type, group_level + 1)) :
         g \in Level(N, group_level)}

\* The network as the call finds it: whether some type of the network's
\* nodes has fewer than two blocks held at group_level, and the number of
\* levels.
MergeEntry(group_level) ==
  [short  |-> \E t \in {node[v].type : v \in Level(Net, 0)} :
                 Cardinality(get_nodes_of_type_at_level(Net, t, group_level)) < 2,
   levels |-> num_levels(Net)]

MergeFrame(level, k, greedy, phase, todo, queue, ret) ==
  [op |-> "agglomerative_merge", level |-> level, k |-> k, GREEDY |-> greedy,
   phase |-> phase,
   todo |-> todo, queue |-> queue, made |-> {}, log |-> <<>>, ret |-> ret,
   blocks |-> Cardinality(Level(Net, level)),
   nonempty |-> \A b \in Level(Net, level) : children(node, b) # {},
   entry |-> MergeEntry(level)]

\* What the caller sees of a call of agglomerative_merge: the arguments,
\* the block level as it was at entry, and the merges made.
MergeOutcome(err, k, greedy, blocks, nonempty, merges, entry) ==
  [op |-> "agglomerative_merge", err |-> err, k |-> k, GREEDY |-> greedy,
   blocks |-> blocks, nonempty |-> nonempty, merges |-> merges, entry |-> entry]

\* The caller of agglomerative_merge gets an exception: collapse_groups
\* catches whatever is thrown and leaves its loop.
MergeThrows(ret, outcome) ==
  /\ pc' = "idle"
  /\ mg' = NoFrame
  /\ IF ret = "collapse"
     THEN co' = NoFrame /\ last' = CollapseOutcome(NoError, outcome.err)
     ELSE co' = co /\ last' = outcome

\* agglomerative_merge(group_level, k) is entered, from the caller or from
\* collapse_groups, and runs up to its candidate list.
EnterMerge(group_level, k, greedy, ret) ==
  \E r \in {merge_setup(Net, group_level, k)} : \E N \in {Canonical(r.N)} :
     /\ SetNet(N)
     /\ IF r.err # NoError
        THEN MergeThrows(ret, MergeOutcome(r.err, k, greedy,
                                           Cardinality(Level(Net, group_level)),
                                           \A b \in Level(Net, group_level) :
                                              children(node, b) # {},
                                           0, MergeEntry(group_level)))
        ELSE /\ pc' = "merge"
             /\ mg' = IF greedy
                      THEN MergeFrame(group_level, k, greedy, "walk", {},
                                      greedy_candidates(N, group_level), ret)
                      ELSE MergeFrame(group_level, k, greedy, "gather",
                                      Level(N, group_level), {}, ret)
             /\ co' = co
             /\ last' = last

AgglomerativeMerge ==
  /\ Idle /\ impl = "Network"
  /\ Len(nodes) >= 2
  /\ \E k \in 0..(MaxNodes - 1), greedy \in BOOLEAN :
        EnterMerge(1, k, greedy, "idle")
  /\ UNCHANGED <<impl, num_types, edges, sw, calls>>

\* Without GREEDY the group samples N_CHECKS_PER_GROUP proposals.
MergeGather ==
  /\ pc = "merge" /\ mg.phase = "gather" /\ mg.todo # {}
  /\ \E g \in mg.todo :
       \E draws \in {propose_move(Net, edges, g)} :
       \E oks \in {{r.s : r \in {x \in draws : x.kind = "ok"}}} :
          \/ /\ \E D \in SUBSET oks :
                  /\ D # {} /\ Cardinality(D) <= N_CHECKS_PER_GROUP
                  /\ mg' = [mg EXCEPT !.todo = @ \ {g},
                                      !.queue = @ \cup pairs_of(node, g, D),
                                      !.phase = IF mg.todo = {g} THEN "walk" ELSE @]
             /\ UNCHANGED <<pc, co, last>>
          \/ /\ \E r \in draws :
                  /\ r.kind = "error"
                  /\ MergeThrows(mg.ret, MergeOutcome(r.err, mg.k, mg.GREEDY, mg.blocks,
                                                     mg.nonempty, 0, mg.entry))
          \/ /\ \E r \in draws : r.kind = "crash"
             /\ pc' = "crashed"
             /\ UNCHANGED <<mg, co, last>>
  /\ UNCHANGED <<impl, num_types, node, nodes, edges, node_type_counts, block_counter,
                 sw, calls>>

\* The test that looks at the source group only.
Mergeable_source_only(pair) ==
  node[pair[1]].id \notin mg.made

\* The two groups of a pair are both still there: neither was merged away.
Mergeable(pair) ==
  /\ node[pair[1]].id \notin mg.made
  /\ node[pair[2]].id \notin mg.made

\* The queue is read while it is empty: std::priority_queue::top on an
\* empty queue reads through the end of an empty vector.
MergeEmptyQueue ==
  /\ pc = "merge" /\ mg.phase = "walk"
  /\ mg.queue = {}
  /\ pc' = "crashed"
  /\ UNCHANGED <<impl, num_types, node, nodes, edges, node_type_counts, block_counter,
                 sw, mg, co, last, calls>>

\* The walk down the queue makes its next merge.  The queue is ordered by
\* the entropy deltas, which are not modelled: any order can occur, so the
\* next merge made is any pair whose two groups were not merged away yet.
MergeStep ==
  /\ pc = "merge" /\ mg.phase = "walk"
  /\ Cardinality(mg.made) < mg.k \/ mg.made = {}
  /\ \E pair \in mg.queue :
        /\ Mergeable(pair)
        /\ \E N \in {merge_groups(Net, pair[2], pair[1])} : SetNet(N)
        /\ mg' = [mg EXCEPT !.made = @ \cup {node[pair[1]].id},
                            !.log = Append(@, pair)]
  /\ UNCHANGED <<impl, num_types, edges, pc, sw, co, last, calls>>

\* Enough merges were made or the queue ran out: empty groups are erased
\* and agglomerative_merge returns.
MergeEnd ==
  /\ pc = "merge" /\ mg.phase = "walk"
  /\ mg.queue # {}
  /\ Cardinality(mg.made) >= mg.k \/ ~\E pair \in mg.queue : Mergeable(pair)
  /\ mg.made # {}
  /\ \E N \in {Canonical(clean_empty_blocks(Net))} : SetNet(N)
  /\ mg' = NoFrame
  /\ IF mg.ret = "collapse"
     THEN /\ pc' = "collapse"
          /\ co' = [co EXCEPT !.phase = "merged", !.sweeps_left = co.steps]
          /\ last' = last
     ELSE /\ pc' = "idle"
          /\ co' = co
          /\ last' = MergeOutcome(NoError, mg.k, mg.GREEDY, mg.blocks, mg.nonempty,
                                  Len(mg.log), mg.entry)
  /\ UNCHANGED <<impl, num_types, edges, sw, calls>>

\* ------------------------------------------------------------ collapsing
MaxSweeps == 1     \* largest num_mcmc_steps a caller passes

\* The number of merges without the cap at desired_num_groups.
num_merges_uncapped(curr_num_groups, desired_num_groups, SIGMA) ==
  LET raw == (curr_num_groups * (SIGMA.num - SIGMA.den)) \div SIGMA.num
  IN IF raw < 1 THEN 1 ELSE raw

\* int(curr_num_groups - curr_num_groups / SIGMA), at least 1, capped so
\* that the merge does not overstep desired_num_groups.
num_merges_for(curr_num_groups, desired_num_groups, SIGMA) ==
  LET raw   == (curr_num_groups * (SIGMA.num - SIGMA.den)) \div SIGMA.num
      least == IF raw < 1 THEN 1 ELSE raw
  IN IF curr_num_groups - least < desired_num_groups
     THEN curr_num_groups - desired_num_groups ELSE least

\* collapse_groups(0, num_mcmc_steps, desired_num_groups) is entered.
CollapseCall(steps) ==
  /\ Idle /\ impl = "Network"
  /\ Len(nodes) >= 1
  /\ \A t \in DOMAIN node_type_counts :
        node_type_counts[t][1] + Cardinality(Level(Net, 0)) <= MaxCount
  /\ \E num_mcmc_steps \in steps, desired \in 1..MaxNodes,
        greedy \in BOOLEAN, sigma \in Sigmas :
        /\ desired <= Cardinality(Level(Net, 0))
        /\ \E r \in {give_every_node_at_level_own_block(Net, 0)} :
           \E N \in {Canonical(r.N)} :
              /\ SetNet(N)
              /\ r.err = NoError
              /\ co' = [op |-> "collapse_groups", GREEDY |-> greedy, SIGMA |-> sigma,
                        steps |-> num_mcmc_steps,
                        desired |-> desired, curr |-> Cardinality(Level(N, 1)),
                        phase |-> "loop", sweeps_left |-> 0, records |-> <<>>]
              /\ pc' = "collapse"
              /\ last' = Running
  /\ UNCHANGED <<impl, num_types, edges, sw, mg, calls>>

CollapseBegin == CollapseCall(0..MaxSweeps)

\* The call with num_mcmc_steps = 0.
CollapseBeginNoSweeps == CollapseCall({0})

\* The loop condition of collapse_groups fails: the step results are returned.
CollapseReturn ==
  /\ pc = "collapse" /\ co.phase = "loop"
  /\ co.curr <= co.desired
  /\ pc' = "idle"
  /\ last' = CollapseOutcome(NoError, NoError)
  /\ co' = NoFrame
  /\ UNCHANGED <<impl, num_types, node, nodes, edges, node_type_counts, block_counter,
                 sw, mg, calls>>

\* One more round of the loop: the merge step is attempted.
CollapseMerge ==
  /\ pc = "collapse" /\ co.phase = "loop"
  /\ co.curr > co.desired
  /\ EnterMerge(1, num_merges_for(co.curr, co.desired, co.SIGMA), co.GREEDY, "collapse")
  /\ UNCHANGED <<impl, num_types, edges, sw, calls>>

\* After the merge, num_mcmc_steps sweeps with a fixed number of groups.
CollapseSweep ==
  /\ pc = "collapse" /\ co.phase = "merged"
  /\ co.sweeps_left > 0
  /\ sw' = SweepFrame(0, FALSE, Level(Net, 0), "collapse")
  /\ pc' = "sweep"
  /\ UNCHANGED <<impl, num_types, node, nodes, edges, node_type_counts, block_counter,
                 mg, co, last, calls>>

\* The sweeps are done: empty groups are erased (when sweeps were asked
\* for), the step is recorded and the group count is read again.
CollapseRecord ==
  /\ pc = "collapse" /\ co.phase = "merged"
  /\ co.sweeps_left = 0
  /\ \E N \in {IF co.steps # 0 THEN Canonical(clean_empty_blocks(Net)) ELSE Net} :
        \E size \in {Cardinality(Level(N, 1))} :
           /\ SetNet(N)
           /\ co' = [co EXCEPT !.phase = "loop", !.curr = size,
                               !.records = Append(@, [num_groups |-> co.curr,
                                                      in_state |-> size])]
  /\ UNCHANGED <<impl, num_types, edges, pc, sw, mg, last, calls>>

\* ------------------------------------------------------------ the merge schedule
MaxBlocks == 8     \* largest group count the schedule is run from
\* The values of SIGMA the schedule is run with.
ScheduleSigmas == Sigmas \cup {[num |-> 2, den |-> 1], [num |-> 3, den |-> 2]}

\* The loop of collapse_groups seen from its group count alone: it is
\* entered with curr_num_groups groups.
ScheduleBegin ==
  /\ Idle /\ impl = "Network"
  /\ \E B \in 1..MaxBlocks, desired \in 1..MaxBlocks, sigma \in ScheduleSigmas :
        /\ desired <= B
        /\ co' = [op |-> "schedule", SIGMA |-> sigma, desired |-> desired, curr |-> B]
  /\ pc' = "schedule"
  /\ last' = Running
  /\ UNCHANGED <<impl, num_types, node, nodes, edges, node_type_counts, block_counter,
                 sw, mg, calls>>

\* One round of the loop: num_merges is computed and asked of
\* agglomerative_merge, which makes at least one and at most num_merges
\* merges; the group count is read again.
ScheduleStep ==
  /\ pc = "schedule"
  /\ co.curr > co.desired
  /\ \E num_merges \in {num_merges_for(co.curr, co.desired, co.SIGMA)} :
        /\ last' = [op |-> "num_merges", err |-> NoError, B |-> co.curr,
                    desired |-> co.desired, SIGMA |-> co.SIGMA, k |-> num_merges]
        /\ \E made \in 1..Max({1, num_merges}) : co' = [co EXCEPT !.curr = @ - made]
  /\ UNCHANGED <<impl, num_types, node, nodes, edges, node_type_counts, block_counter,
                 pc, sw, mg, calls>>

\* The loop condition fails and the schedule ends.
ScheduleReturn ==
  /\ pc = "schedule"
  /\ co.curr <= co.desired
  /\ pc' = "idle"
  /\ co' = NoFrame
  /\ last' = Outcome("schedule", NoError)
  /\ UNCHANGED <<impl, num_types, node, nodes, edges, node_type_counts, block_counter,
                 sw, mg, calls>>

\* =========================================================================
\* SBM_Network (src/src/network.h)
\* =========================================================================
\* The id of the block built from the running block counter.
BlockId(counter) == <<counter>>
\* The parent id recorded for a node that has no parent.
NoneId == <<-1>>

\* The nodes of one level in the order of the type buckets.
InBucketOrder(n, S) ==
  LET RECURSIVE by_type(_)
      by_type(t) ==
        IF t >= MaxTypes THEN <<>>
        ELSE InIdOrder(n, {h \in S : n[h].type = t}) \o by_type(t + 1)
  IN by_type(0)

build_level(N) == [N EXCEPT !.nodes = Append(@, {})]

\* Popping that takes the level below the top with it when that level is
\* a block level too.
delete_block_level_two(N) ==
  LET keep == IF Len(N.nodes) > 2 THEN Len(N.nodes) - 2 ELSE Len(N.nodes) - 1
      gone == UNION {N.nodes[i] : i \in (keep + 1)..Len(N.nodes)}
  IN [N EXCEPT
        !.nodes = SubSeq(@, 1, keep),
        !.node  = [h \in DOMAIN @ \ gone |->
                     IF @[h].parent \in gone THEN [@[h] EXCEPT !.parent = Dangling]
                     ELSE @[h]]]

\* delete_block_level pops the top level: its blocks are destroyed, and the
\* nodes below keep pointing to them.
delete_block_level(N) ==
  LET top == N.nodes[Len(N.nodes)]
  IN [N EXCEPT
        !.nodes = SubSeq(@, 1, Len(@) - 1),
        !.node  = [h \in DOMAIN @ \ top |->
                     IF @[h].parent \in top THEN [@[h] EXCEPT !.parent = Dangling]
                     ELSE @[h]]]

RECURSIVE delete_all_blocks(_)
delete_all_blocks(N) ==
  IF num_levels(N) > 1 THEN delete_all_blocks(delete_block_level(N)) ELSE N

\* SBM_Network::add_node pushes the node to the back of its bucket.
SBM_add_node(N, id, type, level) ==
  LET h == NewHandle(N.node)
  IN [N EXCEPT !.node = @ @@ (h :> Node(id, level, type)),
               !.nodes[level + 1] = @ \cup {h}]

RECURSIVE emplace_blocks(_, _, _, _)
emplace_blocks(N, type_i, block_level, count) ==
  IF count = 0 THEN N
  ELSE emplace_blocks([SBM_add_node(N, BlockId(N.bc), type_i, block_level)
                         EXCEPT !.bc = @ + 1],
                      type_i, block_level, count - 1)

RECURSIVE set_parents(_, _, _)
set_parents(n, todo, parent_of) ==
  IF todo = {} THEN n
  ELSE LET c == CHOOSE x \in todo : TRUE
       IN set_parents(set_parent(n, c, parent_of[c]), todo \ {c}, parent_of)

\* The loop of initialize_blocks over the types, from type_i on.  place[c]
\* is the position of child c in its bucket after the shuffle.
RECURSIVE initialize_types(_, _, _, _, _)
initialize_types(N, type_i, num_types_, num_blocks, place) ==
  IF type_i >= num_types_ THEN [N |-> N, err |-> NoError]
  ELSE LET block_level   == num_levels(N) - 1
           child_level   == block_level - 1
           nodes_of_type == {h \in Level(N, child_level) : N.node[h].type = type_i}
           k  == IF num_blocks = -1 THEN Cardinality(nodes_of_type) ELSE num_blocks
           N1 == emplace_blocks(N, type_i, block_level, k)
           block(i) == CHOOSE b \in Level(N1, block_level) :
                          N1.node[b].id = BlockId(N.bc + i)
           N2 == [N1 EXCEPT !.node =
                    set_parents(@, nodes_of_type,
                                [c \in nodes_of_type |-> block(place[c] % k)])]
       IN IF k > Cardinality(nodes_of_type)
          THEN [N |-> N, err |-> "Overprovisioned"]
          ELSE initialize_types(N2, type_i + 1, num_types_, num_blocks, place)

initialize_blocks(N, num_types_, num_blocks, place) ==
  initialize_types(build_level(N), 0, num_types_, num_blocks, place)

\* The position of every node of a level in its bucket, before any shuffle.
bucket_place(n, S) ==
  [c \in S |-> Cardinality({d \in S : /\ n[d].type = n[c].type
                                      /\ \/ IdLess(n[d].id, n[c].id)
                                         \/ (n[d].id = n[c].id /\ d < c)})]

\* The positions a shuffle of every bucket can produce.
shuffled_places(n, S) ==
  {place \in [S -> 0..(Cardinality(S) - 1)] :
     \A c \in S :
        /\ place[c] < Cardinality({d \in S : n[d].type = n[c].type})
        /\ \A d \in S \ {c} : n[d].type = n[c].type => place[d] # place[c]}

\* ------------------------------------------------------------ state dumps
Entry(n, h) ==
  [id |-> n[h].id, type |-> n[h].type, level |-> n[h].level,
   parent |-> IF n[h].parent \in DOMAIN n THEN n[n[h].parent].id ELSE NoneId]

RECURSIVE dump_levels(_, _)
dump_levels(N, level) ==
  IF level >= num_levels(N) - 1 THEN <<>>
  ELSE LET order == InBucketOrder(N.node, Level(N, level))
       IN [i \in 1..Len(order) |-> Entry(N.node, order[i])] \o dump_levels(N, level + 1)

\* get_state: one entry for every node below the top level.
get_state(N) == dump_levels(N, 0)

\* The loop of update_state over the entries of the dump.
RECURSIVE load_entries(_, _, _, _, _)
load_entries(N, dump, node_by_id, block_by_id, last_level) ==
  IF dump = <<>> THEN [N |-> N, err |-> NoError]
  ELSE LET e      == Head(dump)
           up     == last_level # e.level
           by_id  == IF up THEN block_by_id ELSE node_by_id
           blocks == IF up THEN <<>> ELSE block_by_id
           N1     == IF up THEN build_level(N) ELSE N
           known  == e.parent \in DOMAIN blocks
           N2     == IF known THEN N1 ELSE SBM_add_node(N1, e.parent, e.type, e.level + 1)
           parent_node == IF known THEN blocks[e.parent] ELSE NewHandle(N1.node)
       IN IF e.id \notin DOMAIN by_id
          THEN [N |-> N1, err |-> "NotPresent"]
          ELSE load_entries([N2 EXCEPT !.node = set_parent(@, by_id[e.id], parent_node)],
                            Tail(dump), by_id,
                            (e.parent :> parent_node) @@ blocks, e.level)

\* update_state(dump): the block levels are deleted and rebuilt from the
\* dump.  The level-0 nodes point to destroyed blocks when the loop gives
\* them their new parents; where the build survives that, the old parents
\* play no part.
update_state(N, dump) ==
  LET N0 == build_level(delete_all_blocks(N))
      N1 == [N0 EXCEPT !.node = [h \in DOMAIN @ |->
                                   IF @[h].parent = Dangling
                                   THEN [@[h] EXCEPT !.parent = None] ELSE @[h]]]
      zero == Level(N1, 0)
      ids  == {N1.node[h].id : h \in zero}
      node_by_id == [id \in ids |->
                       CHOOSE h \in zero :
                          /\ N1.node[h].id = id
                          /\ \A g \in zero : N1.node[g].id = id => g <= h]
  IN load_entries(N1, dump, node_by_id, <<>>, 0)

\* The groups of one level: the ids of the nodes that share a parent.
Groups(N, level) ==
  {{N.node[c].id : c \in {d \in Level(N, level) : N.node[d].parent = N.node[m].parent}} :
     m \in Level(N, level)}

\* Both networks group the nodes of every level below the top alike.
SamePartition(N, M) ==
  /\ num_levels(N) = num_levels(M)
  /\ \A i \in 1..(num_levels(N) - 1) : Groups(N, i - 1) = Groups(M, i - 1)

\* =========================================================================
\* Initial state and the callers' operations
\* =========================================================================
Init ==
  /\ impl = "Network"
  /\ num_types = 0
  /\ node = <<>>
  /\ nodes = IF impl = "Network" THEN <<>> ELSE <<{}>>
  /\ edges = <<>>
  /\ node_type_counts = <<>>
  /\ block_counter = 0
  /\ pc = "idle"
  /\ sw = NoFrame
  /\ mg = NoFrame
  /\ co = NoFrame
  /\ last = Outcome("construct", NoError)
  /\ calls = 0

\* The caller adds the level-0 nodes before any block exists; node k gets
\* the id <<k>>, and types are taken into use in order 0, 1, ...
AddNode ==
  /\ Idle /\ impl = "Network"
  /\ Len(nodes) <= 1
  /\ Cardinality(DOMAIN node) < MaxNodes
  /\ \E type \in 0..(MaxTypes - 1) :
        /\ type <= Cardinality({node[h].type : h \in DOMAIN node})
        /\ \A h \in DOMAIN node : node[h].type <= type
        /\ SetNet(add_node(Net, <<Cardinality(DOMAIN node) + 1>>, type, 0))
  /\ last' = Outcome("add_node", NoError)
  /\ UNCHANGED <<impl, num_types, edges, pc, sw, mg, co, calls>>

\* Network::add_edge between two level-0 nodes that are not connected yet.
AddEdge ==
  /\ Idle
  /\ Len(nodes) >= 1
  /\ NumEdges(edges) < MaxEdges
  /\ \E u \in Level(Net, 0), v \in Level(Net, 0) :
        /\ v = u + 1
        /\ EdgeCount(edges, u, v) = 0
        /\ node' = connect_nodes(node, u, v)
        /\ edges' = add_edge_bag(edges, u, v)
  /\ last' = Outcome("add_edge", NoError)
  /\ UNCHANGED <<impl, num_types, nodes, node_type_counts, block_counter, pc, sw, mg, co, calls>>

\* The first Network::initialize_blocks(num_blocks, 0) of a network.
NetworkInitializeBlocks ==
  /\ Idle /\ impl = "Network"
  /\ Len(nodes) = 1
  /\ \E num_blocks \in {-1, 2} :
        \E pick \in [Level(Net, 0) -> 1..(IF num_blocks = -1 THEN 1 ELSE num_blocks)] :
           LET r == Network_initialize_blocks(Net, num_blocks, 0, pick)
           IN /\ SetNet(Canonical(r.N))
              /\ last' = [op |-> "initialize_blocks", err |-> r.err,
                          num_blocks |-> num_blocks, levels |-> Len(nodes)]
  /\ UNCHANGED <<impl, num_types, edges, pc, sw, mg, co, calls>>

\* Network::clean_empty_blocks.  The outcome keeps what became of the
\* blocks: whether whatever went was a block left without children, and
\* whether a block went that had a child at entry.
CleanEmptyBlocks ==
  /\ Idle /\ impl = "Network"
  /\ LET N == clean_empty_blocks(Net)
     IN /\ SetNet(Canonical(N))
        /\ last' = [op |-> "clean_empty_blocks", err |-> NoError,
                    kept |-> \A h \in AllHeld(Net) \ AllHeld(N) :
                               /\ node[h].level >= 1
                               /\ children(node, h) \subseteq AllHeld(Net) \ AllHeld(N),
                    cascade |-> \E h \in AllHeld(Net) \ AllHeld(N) :
                                  children(node, h) # {}]
  /\ UNCHANGED <<impl, num_types, edges, pc, sw, mg, co, calls>>

\* An SBM_Network is constructed with its list of types.
InitNet ==
  /\ impl = "SBM_Network"
  /\ num_types \in 1..MaxTypes
  /\ node = <<>>
  /\ nodes = <<{}>>
  /\ edges = <<>>
  /\ node_type_counts = <<>>
  /\ block_counter = 0
  /\ pc = "idle"
  /\ sw = NoFrame
  /\ mg = NoFrame
  /\ co = NoFrame
  /\ last = Outcome("construct", NoError)
  /\ calls = 0

\* The caller adds the level-0 nodes of an SBM_Network before any block exists.
NetAddNode ==
  /\ Idle /\ impl = "SBM_Network"
  /\ Len(nodes) = 1
  /\ Cardinality(DOMAIN node) < MaxNodes
  /\ \E type \in 0..(num_types - 1) :
        /\ \A h \in DOMAIN node : node[h].type <= type
        /\ SetNet(SBM_add_node(Net, <<Cardinality(DOMAIN node) + 1>>, type, 0))
  /\ last' = Outcome("add_node", NoError)
  /\ UNCHANGED <<impl, num_types, edges, pc, sw, mg, co, calls>>

\* SBM_Network::initialize_blocks(num_blocks) on the current top level.  The
\* outcome keeps the number of levels at entry and whether the call gave
\* some node a parent.  A node whose parent was destroyed with its level
\* is given its new parent while it points to the destroyed block: the
\* build may stop there or go on.
InitializeBlocks ==
  /\ Idle /\ impl = "SBM_Network"
  /\ Len(nodes) <= MaxLevel
  /\ \E num_blocks \in {-1, 1, 2} :
        LET top == Level(Net, num_levels(Net) - 1)
        IN \E place \in IF num_blocks = -1 THEN {bucket_place(node, top)}
                        ELSE shuffled_places(node, top) :
              LET r == initialize_blocks(Net, num_types, num_blocks, place)
                  reparented == {v \in top : r.N.node[v].parent # node[v].parent}
              IN \/ /\ SetNet(Canonical(r.N))
                    /\ pc' = pc
                    /\ last' = [op |-> "initialize_blocks", err |-> r.err,
                                num_blocks |-> num_blocks, levels |-> Len(nodes),
                                reparented |-> reparented # {}]
                 \/ /\ \E v \in reparented : node[v].parent = Dangling
                    /\ pc' = "crashed"
                    /\ last' = Outcome("initialize_blocks", "crash")
                    /\ UNCHANGED <<node, nodes, node_type_counts, block_counter>>
  /\ UNCHANGED <<impl, num_types, edges, sw, mg, co, calls>>

\* SBM_Network::add_node(id, type, 0) before any block exists, with an id
\* of the caller's choice: one already given or the next new one.  The
\* outcome keeps whether level 0 held a node with that id when the call
\* began.
AddNodeId ==
  /\ Idle /\ impl = "SBM_Network"
  /\ Len(nodes) = 1
  /\ Cardinality(DOMAIN node) < MaxNodes
  /\ \E id \in 1..(Cardinality(DOMAIN node) + 1), type \in 0..(num_types - 1) :
        /\ \A h \in DOMAIN node : node[h].type <= type
        /\ SetNet(SBM_add_node(Net, <<id>>, type, 0))
        /\ last' = [op |-> "add_node", err |-> NoError,
                    dup |-> \E h \in Level(Net, 0) : node[h].id = <<id>>]
  /\ UNCHANGED <<impl, num_types, edges, pc, sw, mg, co, calls>>

\* SBM_Network::delete_block_level: the top level is popped when the
\* network has blocks, otherwise the call fails.  The outcome keeps the
\* number of levels at entry.
DeleteBlockLevel ==
  /\ Idle /\ impl = "SBM_Network"
  /\ calls < MaxCalls
  /\ calls' = calls + 1
  /\ IF num_levels(Net) > 1
     THEN /\ SetNet(Canonical(delete_block_level(Net)))
          /\ last' = [op |-> "delete_block_level", err |-> NoError,
                      levels |-> Len(nodes)]
     ELSE /\ last' = [op |-> "delete_block_level", err |-> "NoBlocks",
                      levels |-> Len(nodes)]
          /\ UNCHANGED <<node, nodes, node_type_counts, block_counter>>
  /\ UNCHANGED <<impl, num_types, edges, pc, sw, mg, co>>

\* SBM_Network::delete_all_blocks.
DeleteAllBlocks ==
  /\ Idle /\ impl = "SBM_Network"
  /\ calls < MaxCalls
  /\ calls' = calls + 1
  /\ SetNet(Canonical(delete_all_blocks(Net)))
  /\ last' = [op |-> "delete_all_blocks", err |-> NoError, levels |-> Len(nodes)]
  /\ UNCHANGED <<impl, num_types, edges, pc, sw, mg, co>>

\* One accepted move of a sweep: v.set_parent(s) for a block s of the type
\* of v, one level above v.
MoveNode ==
  /\ Idle /\ impl = "SBM_Network"
  /\ calls < MaxCalls
  /\ \E v \in AllHeld(Net) :
        \E s \in AllHeld(Net) :
           /\ node[v].parent \in DOMAIN node
           /\ node[s].level = node[v].level + 1
           /\ node[s].type = node[v].type
           /\ s # node[v].parent
           /\ SetNet(Canonical([Net EXCEPT !.node = set_parent(@, v, s)]))
  /\ calls' = calls + 1
  /\ last' = Outcome("move", NoError)
  /\ UNCHANGED <<impl, num_types, edges, pc, sw, mg, co>>

\* update_state(get_state()); the outcome keeps whether every node below
\* the top level had a parent and whether the groups of every level are
\* the same as before.  A node below the top level that has no
\* parent gives get_state no parent to ask for an id: the build may stop
\* there or record the id of no parent.  In update_state the nodes of level
\* 0 that had a parent are given their new parent while they point to a
\* destroyed block: the build may stop there or go on.
UpdateState ==
  /\ Idle /\ impl = "SBM_Network"
  /\ IF num_levels(Net) = 1
     THEN /\ last' = Outcome("get_state", "NoState")
          /\ UNCHANGED <<node, nodes, node_type_counts, block_counter, pc>>
     ELSE LET dump     == get_state(Net)
              orphaned == \E i \in 1..Len(dump) : dump[i].parent = NoneId
              dangling == \E v \in Level(Net, 0) : node[v].parent # None
              r        == update_state(Net, dump)
          IN \/ /\ SetNet(Canonical(r.N))
                /\ pc' = pc
                /\ last' = [op |-> "update_state", err |-> r.err,
                            whole |-> ~orphaned,
                            same |-> SamePartition(Net, r.N)]
             \/ /\ orphaned \/ dangling
                /\ pc' = "crashed"
                /\ last' = Outcome(IF orphaned THEN "get_state" ELSE "update_state",
                                   "crash")
                /\ UNCHANGED <<node, nodes, node_type_counts, block_counter>>
  /\ UNCHANGED <<impl, num_types, edges, sw, mg, co, calls>>

\* The caller builds a network, initializes and prunes blocks and sweeps.
Next ==
  \/ AddNode
  \/ AddEdge
  \/ NetworkInitializeBlocks
  \/ CleanEmptyBlocks
  \/ MCMCSweepBegin
  \/ MCMCSweepStep

Spec == Init /\ [][Next]_vars

\* The caller builds a network, initializes and prunes blocks and merges.
NextMerge ==
  \/ AddNode
  \/ AddEdge
  \/ NetworkInitializeBlocks
  \/ CleanEmptyBlocks
  \/ AgglomerativeMerge
  \/ MergeGather
  \/ MergeEmptyQueue
  \/ MergeStep
  \/ MergeEnd

SpecMerge == Init /\ [][NextMerge]_vars

\* The caller builds a network and collapses it.
NextCollapse ==
  \/ AddNode
  \/ AddEdge
  \/ CollapseBegin
  \/ CollapseReturn
  \/ CollapseMerge
  \/ CollapseSweep
  \/ CollapseRecord
  \/ MCMCSweepStep
  \/ MergeGather
  \/ MergeEmptyQueue
  \/ MergeStep
  \/ MergeEnd

SpecCollapse == Init /\ [][NextCollapse]_vars

\* collapse_groups without sweeps between the merge steps.
NextCollapseNoSweeps ==
  \/ AddNode
  \/ AddEdge
  \/ CollapseBeginNoSweeps
  \/ CollapseReturn
  \/ CollapseMerge
  \/ CollapseRecord
  \/ MergeGather
  \/ MergeEmptyQueue
  \/ MergeStep
  \/ MergeEnd

\* A call runs to its end: the engine is single-threaded and a call has
\* no point at which it waits.
CollapseRuns ==
  \/ CollapseReturn
  \/ CollapseMerge
  \/ CollapseRecord
  \/ MergeGather
  \/ MergeEmptyQueue
  \/ MergeStep
  \/ MergeEnd

SpecCollapseFair == Init /\ [][NextCollapseNoSweeps]_vars /\ WF_vars(CollapseRuns)

\* The caller builds an SBM_Network, initializes blocks, moves nodes and
\* reloads the state.
NextNet ==
  \/ NetAddNode
  \/ AddEdge
  \/ InitializeBlocks
  \/ MoveNode
  \/ UpdateState

SpecNet == InitNet /\ [][NextNet]_vars

\* The merge schedule of collapse_groups for group counts up to MaxBlocks.
NextSchedule ==
  \/ ScheduleBegin
  \/ ScheduleStep
  \/ ScheduleReturn

SpecSchedule == Init /\ [][NextSchedule]_vars

\* The caller adds nodes under ids of its choice, initializes blocks and
\* deletes block levels.
NextLevels ==
  \/ AddNodeId
  \/ InitializeBlocks
  \/ DeleteBlockLevel
  \/ DeleteAllBlocks

SpecLevels == InitNet /\ [][NextLevels]_vars

\* =========================================================================
\* Properties
\* =========================================================================
\* C1: between calls, every node the network holds below its top level has
\* a parent, and that parent is one level up and is one of the blocks the
\* network holds at that level (and so lists the node among its children).
C1_ParentHeld ==
  Idle => \A l \in 0..(num_levels(Net) - 2) :
             \A v \in Level(Net, l) :
                /\ node[v].parent \in DOMAIN node
                /\ node[node[v].parent].level = l + 1
                /\ node[v].parent \in Level(Net, l + 1)

\* C2: the parent of every node has the type of the node.
C2_ParentType ==
  \A v \in DOMAIN node :
     node[v].parent \in DOMAIN node => node[node[v].parent].type = node[v].type

\* C3: the degree of every block, at every level, is the sum of the degrees
\* of the nodes that are its children.
C3_DegreeSum ==
  \A b \in DOMAIN node :
     node[b].level >= 1 =>
        node[b].degree = SumOver(children(node, b),
                                 [c \in children(node, b) |-> node[c].degree])

\* A collapse has merged and swept and left a block with several children
\* that have edges.
C3_Witness ==
  /\ Idle /\ last.op = "collapse_groups" /\ last.steps >= 1
  /\ \E b \in Level(Net, 1) :
        /\ Cardinality(children(node, b)) >= 2
        /\ node[b].degree >= 3

\* C4: on a network that has nodes and block levels, and in which every node
\* below the top level has a parent, an update_state(get_state()) that runs
\* to its end completes without error and leaves the nodes of every level
\* grouped as they were, up to the names of the blocks.
C4_RoundTrip ==
  (Idle /\ last.op = "update_state" /\ Level(Net, 0) # {} /\ last.whole) =>
     (last.err = NoError /\ last.same)

C6_NotBelowTarget ==
  (Idle /\ last.op = "collapse_groups" /\ last.err = NoError) =>
     Cardinality(Level(Net, 1)) >= last.desired

\* C6 amended: without sweeps (num_mcmc_steps = 0), when collapse_groups
\* has returned the block level holds desired_num_groups blocks or more.
C6_NotBelowTargetNoSweeps ==
  (Idle /\ last.op = "collapse_groups" /\ last.err = NoError /\ last.steps = 0) =>
     Cardinality(Level(Net, 1)) >= last.desired

SingleType == \A v \in DOMAIN node : node[v].type = 0

C6_Witness ==
  /\ Idle /\ last.op = "collapse_groups" /\ last.steps = 0 /\ last.desired = 2
  /\ Cardinality(Level(Net, 0)) = 3
  /\ Cardinality(Level(Net, 1)) = 2

\* C7: in one call agglomerative_merge(level, k), k >= 1: at most k merges
\* are made, no group is the source of two merges, and no merge moves
\* children into a group that an earlier merge of the call used as source.
C7_MergeWalk ==
  pc = "merge" =>
     /\ Len(mg.log) <= mg.k
     /\ \A i \in 1..Len(mg.log) : \A j \in 1..Len(mg.log) :
           i < j => /\ mg.log[i][1] # mg.log[j][1]
                    /\ mg.log[i][1] # mg.log[j][2]

\* A call has made two merges.
C7_Witness ==
  pc = "merge" /\ mg.k = 2 /\ Len(mg.log) = 2

\* C8: with GREEDY on a network of one type whose block level holds B >= 2
\* blocks, none of them empty, agglomerative_merge(1, B - 1) returns with
\* exactly one block at level 1, and that block is the parent of every
\* node of level 0.
C8_MergeAll ==
  /\ (pc = "crashed" /\ mg.op = "agglomerative_merge" /\ mg.ret = "idle" /\ SingleType) =>
        ~(mg.GREEDY /\ mg.nonempty /\ mg.blocks >= 2 /\ mg.k = mg.blocks - 1)
  /\ (Idle /\ last.op = "agglomerative_merge" /\ last.GREEDY /\ SingleType
         /\ last.nonempty /\ last.blocks >= 2 /\ last.k = last.blocks - 1) =>
        /\ last.err = NoError
        /\ Cardinality(Level(Net, 1)) = 1
        /\ \A v \in Level(Net, 0) : node[v].parent \in Level(Net, 1)

\* Three blocks were merged into one.
C8_Witness ==
  /\ Idle /\ last.op = "agglomerative_merge" /\ last.GREEDY /\ SingleType
  /\ last.nonempty /\ last.blocks = 3 /\ last.k = 2 /\ last.err = NoError
  /\ Cardinality(Level(Net, 1)) = 1

\* C9: when clean_empty_blocks has returned, no level above 0 holds a block
\* without children, whatever went was a block left without children, and
\* every node of level 0 is still there.
C9_NoEmptyBlocks ==
  (Idle /\ last.op = "clean_empty_blocks") =>
     /\ \A l \in 1..(num_levels(Net) - 1) :
           \A b \in Level(Net, l) : children(node, b) # {}
     /\ last.kept

\* A call removed a block that had a child when the call began.
C9_Witness ==
  Idle /\ last.op = "clean_empty_blocks" /\ last.cascade

\* C10: when initialize_blocks(k) has succeeded, one level was appended,
\* every type with n nodes in the level below has k blocks (n when k = -1),
\* and the child counts of the blocks of a type differ by one at most.
C10_BalancedBlocks ==
  (Idle /\ last.op = "initialize_blocks" /\ last.err = NoError) =>
     LET top   == Level(Net, num_levels(Net) - 1)
         below == Level(Net, num_levels(Net) - 2)
     IN /\ num_levels(Net) = last.levels + 1
        /\ \A t \in {node[v].type : v \in below} :
              LET blocks == {b \in top : node[b].type = t}
                  n == Cardinality({v \in below : node[v].type = t})
              IN /\ Cardinality(blocks) = IF last.num_blocks = -1 THEN n
                                          ELSE last.num_blocks
                 /\ \A a \in blocks : \A b \in blocks :
                       Cardinality(children(node, a)) - Cardinality(children(node, b)) <= 1

\* C11: no two blocks alive at the same (type, level) share an id; a newly
\* created block never receives the id of a block of its (type, level)
\* that is still alive.
C11_UniqueBlockIds ==
  \A a \in DOMAIN node : \A b \in DOMAIN node :
     (a # b /\ node[a].level >= 1 /\ node[a].level = node[b].level
        /\ node[a].type = node[b].type) => node[a].id # node[b].id

\* C12: agglomerative_merge(block_level, k), k >= 1, fails with
\* InsufficientBlocks whenever some node type has fewer than two blocks
\* held at block_level when the call begins.
C12_InsufficientBlocks ==
  /\ (pc \in {"merge", "crashed"} /\ mg.op = "agglomerative_merge") => ~mg.entry.short
  /\ (Idle /\ last.op = "agglomerative_merge" /\ last.k >= 1 /\ last.entry.short)
        => last.err = "InsufficientBlocks"

\* C13: when collapse_groups ends its schedule early and returns the records
\* it has, the exception of the merge step was InsufficientBlocks; any
\* other exception of agglomerative_merge reaches the caller.
C13_OnlyInsufficientBlocks ==
  (Idle /\ last.op = "collapse_groups" /\ last.err = NoError) =>
     last.caught \in {NoError, "InsufficientBlocks"}

\* C14: add_node(id, type, level) fails with DuplicateId when the level
\* holds a node with that id, and no level ever holds two nodes with the
\* same id.
C14_DuplicateId ==
  /\ \A l \in 0..(num_levels(Net) - 1) :
        \A a \in Level(Net, l) : \A b \in Level(Net, l) :
           a # b => node[a].id # node[b].id
  /\ (Idle /\ last.op = "add_node" /\ last.dup) => last.err = "DuplicateId"

\* C15: when initialize_blocks(k) has failed with Overprovisioned, the
\* network has the levels it had before the call and no node was given a
\* parent.
C15_OverprovisionedUnchanged ==
  (Idle /\ last.op = "initialize_blocks" /\ last.err = "Overprovisioned") =>
     /\ num_levels(Net) = last.levels
     /\ ~last.reparented

\* C17: delete_block_level fails with NoBlocks and changes nothing when
\* the network has level 0 only, and otherwise removes the top level and
\* no other; delete_all_blocks ends with level 0 alone, holding the nodes
\* it held before.
C17_DeleteLevels ==
  [][/\ DeleteBlockLevel =>
           IF Len(nodes) = 1
           THEN last'.err = "NoBlocks" /\ nodes' = nodes /\ node' = node
           ELSE /\ last'.err = NoError
                /\ nodes' = SubSeq(nodes, 1, Len(nodes) - 1)
                /\ DOMAIN node' = DOMAIN node \ nodes[Len(nodes)]
     /\ DeleteAllBlocks =>
           /\ last'.err = NoError
           /\ nodes' = <<nodes[1]>>
           /\ \A h \in nodes[1] : /\ node'[h].id = node[h].id
                                  /\ node'[h].type = node[h].type
                                  /\ node'[h].level = 0]_vars

\* delete_all_blocks has taken a network of three levels down to level 0.
C17_Witness ==
  /\ Idle /\ last.op = "delete_all_blocks" /\ last.levels = 3
  /\ num_levels(Net) = 1 /\ Level(Net, 0) # {}

\* C16: agglomerative_merge(block_level, 0) fails with ZeroMerges, and the
\* network is after the call what it was before: no level, node, parent or
\* count has changed.
C16_ZeroMerges ==
  [][\A greedy \in BOOLEAN :
        (Idle /\ impl = "Network" /\ Len(nodes) >= 2 /\ EnterMerge(1, 0, greedy, "idle")) =>
           /\ pc' = "idle"
           /\ last'.err = "ZeroMerges"
           /\ node' = node /\ nodes' = nodes
           /\ node_type_counts' = node_type_counts]_vars

\* agglomerative_merge(1, 0) has failed on a network that has blocks.
C16_Witness ==
  /\ Idle /\ last.op = "agglomerative_merge" /\ last.k = 0 /\ last.err = "ZeroMerges"
  /\ Level(Net, 1) # {}

\* C18: in every round of the loop of collapse_groups with B groups,
\* B > desired_num_groups, the number of merges asked of
\* agglomerative_merge is min(max(1, B - floor(B / SIGMA)), B - desired_num_groups).
C18_NumMerges ==
  (last.op = "num_merges") =>
     last.k = Min({Max({1, last.B - ((last.B * last.SIGMA.den) \div last.SIGMA.num)}),
                   last.B - last.desired})

\* C19: when agglomerative_merge(block_level, k) has returned or failed, the
\* network has as many levels as before the call and holds no block at
\* the meta level, block_level + 1.
C19_MetaLevelGone ==
  (Idle /\ last.op = "agglomerative_merge") =>
     /\ num_levels(Net) = last.entry.levels
     /\ num_levels(Net) > 2 => Level(Net, 2) = {}

\* C20: in every step record of collapse_groups, the recorded number of
\* groups is the number of groups in the state the record holds.
C20_RecordedCount ==
  (pc = "collapse" /\ co.op = "collapse_groups") =>
     \A i \in 1..Len(co.records) : co.records[i].num_groups = co.records[i].in_state

\* C21: when delete_block_level or delete_all_blocks has returned, no node
\* refers to a removed block: every node of the new top level has no
\* parent.
C21_NoParentLeft ==
  (Idle /\ last.op \in {"delete_block_level", "delete_all_blocks"}
        /\ last.err = NoError) =>
     /\ \A v \in Level(Net, num_levels(Net) - 1) : node[v].parent = None
     /\ \A h \in DOMAIN node : node[h].parent # Dangling

\* C22: mcmc_sweep(node_level, false) creates and removes no block at any
\* level, changes the parent of no node but those it returns in
\* nodes_moved, visits each node of node_level once, and never reports a
\* proposal equal to the node's parent as a move.
C22_FixedSweepFrame ==
  /\ (pc = "sweep" /\ ~sw.variable) =>
        /\ sw.kept
        /\ sw.visits + Cardinality(sw.todo) = sw.size
  /\ (Idle /\ last.op = "mcmc_sweep" /\ ~last.variable /\ last.err = NoError) =>
        /\ last.kept
        /\ last.visits = last.size

\* A sweep with a fixed number of groups has returned after it moved some
\* of the nodes it visited and left the others where they were.
C22_Witness ==
  /\ Idle /\ last.op = "mcmc_sweep" /\ ~last.variable /\ last.err = NoError
  /\ last.moved # {} /\ Cardinality(last.moved) < last.size

\* C23: in the acceptance computation for the move of node v to group s,
\* the two sums of the probability ratio run over exactly the groups to
\* which v has an edge; a group connected to v's group or to s and not to
\* v gives no term.
C23_RatioTerms ==
  (pc = "sweep") =>
     \A v \in sw.todo : \A r \in propose_move(Net, edges, v) :
        (/\ r.kind = "ok"
         /\ node[v].parent \in DOMAIN node
         /\ node[node[v].parent].id # node[r.s].id) =>
           ratio_terms(Net, edges, v, r.s)
              = get_connections_to_level(node, edges, v, node[v].level + 1)

\* C24: agglomerative_merge never reads the head of its candidate queue
\* while the queue is empty: a call whose candidate loop recorded no
\* candidate does not enter the walk down the queue, and no call ends in
\* that read.
C24_NoEmptyQueueRead ==
  (pc \in {"merge", "crashed"} /\ mg.op = "agglomerative_merge" /\ mg.phase = "walk") =>
     mg.queue # {}

====
